---- MODULE Spec2Model ----
(***************************************************************************)
(* ArmCommunicationInterface (probe-rs, architecture/arm/                  *)
(* communication_interface.rs): DP selection, DP/AP bank selection with    *)
(* the SELECT cache, disconnect, reinitialize, close and drop.             *)
(*                                                                         *)
(* Every operation of the interface is one action.  The probe and the      *)
(* debug-sequence hooks are the environment: each call may succeed or      *)
(* fail, and a read returns any value of a small set.  An operation is     *)
(* computed as the SET of its possible runs: every operator below takes a  *)
(* run record and returns the set of run records that can follow it.       *)
(*                                                                         *)
(* A run record st has the fields                                          *)
(*   cur    current_dp (NoDp for None)                                     *)
(*   dps    the HashMap<DpAddress, DpState>, a function on its key set     *)
(*   probe  whether the probe slot holds the probe                         *)
(*   hw     per DP, the last value the probe accepted for SELECT and       *)
(*          SELECT1 (<<>> when never written)                              *)
(*   log    the probe calls and hook calls of the operation, in order      *)
(*   nfail  the failures injected so far in this operation                 *)
(*   res    "ok" | "err" | "panic": the Result of the call just made       *)
(*   ret    the value the call just made returned                          *)
(*   ctx    "top" | "init" | "hook": who is issuing DAP accesses           *)
(*   by     the function of the interface that issues the call             *)
(*   uod    use_overrun_detect                                             *)
(*   hook   the DP registers the debug_port_start hook reads through the   *)
(*          interface (the hook is the sequence's, not the interface's)    *)
(*   out    the helper access_ports dispatches to                          *)
(***************************************************************************)
EXTENDS Integers, Sequences, FiniteSets, TLC

VARIABLES probe, current_dp, dps, use_overrun_detect, hook_regs, hw, log, last

vars == <<probe, current_dp, dps, use_overrun_detect, hook_regs, hw, log, last>>

(***************************************************************************)
(* Bounds and input sets                                                   *)
(***************************************************************************)
\* at most MaxFail probe or hook calls fail within one operation (two: a
\* failed debug_port_connect and a failure of what follows it)
MaxFail == 2

\* the number of access ports access_ports returns for a debug port
MaxAps == 2

\* the debug ports of the target (DpAddress values)
DPs == {"dpA", "dpB", "dpC"}

\* the debug ports the register accesses are issued to, and the one they
\* alternate with
AccessDPs == {"dpA"}

OtherDPs == {"dpB"}

NoDp == "None"

\* Option<u8>: <<>> is None, <<b>> is Some(b)
UnwrapOr0(opt) == IF opt = <<>> THEN 0 ELSE opt[1]

(***************************************************************************)
(* DP registers (dp module): DpRegisterAddress {bank, address}             *)
(***************************************************************************)
DPIDR_ADDRESS == [bank |-> <<>>, address |-> 0]
CTRL_ADDRESS == [bank |-> <<0>>, address |-> 4]
DLCR_ADDRESS == [bank |-> <<1>>, address |-> 4]
SELECT_ADDRESS == [bank |-> <<>>, address |-> 8]
SELECT1_ADDRESS == [bank |-> <<5>>, address |-> 4]
RDBUFF_ADDRESS == [bank |-> <<>>, address |-> 12]

\* the DP registers a caller reads or writes; the last one names a bank on an
\* address that is not banked
DpRegs == {DPIDR_ADDRESS, DLCR_ADDRESS, [bank |-> <<1>>, address |-> 12]}

\* DebugPortId::from(DPIDR): the version field of the DPIDR value
VersionOf(v) ==
  CASE v = 0 -> "DPv0"
    [] v = 1 -> "DPv1"
    [] v = 2 -> "DPv2"
    [] v = 3 -> "DPv3"
    [] OTHER -> "Unsupported(4)"

\* the target: the version fields the DPIDR of each debug port may hold
DpidrValues(dp) ==
  CASE dp = "dpA" -> {1, 3}
    [] dp = "dpB" -> {4}
    [] OTHER -> {2}

SupportedVersions == {"DPv0", "DPv1", "DPv2", "DPv3"}

(***************************************************************************)
(* Register values.  A 32-bit register value is held as the fields the     *)
(* code reads and writes through the bitfield accessors of SelectV1,       *)
(* SelectV3, Select1, Ctrl and DPIDR; a field a register does not have     *)
(* stays zero.  A u64 is its 16 hex digits, least significant first.       *)
(***************************************************************************)
Zero8 == [i \in 1..8 |-> 0]

ZeroReg ==
  [dp_bank_sel |-> 0, ap_sel |-> 0, ap_bank_sel |-> 0, addr |-> Zero8,
   orun_detect |-> FALSE, version |-> 0]

U64(n) ==
  [i \in 1..16 |->
     CASE i = 1 -> n % 16
       [] i = 2 -> (n \div 16) % 16
       [] i = 3 -> (n \div 256) % 16
       [] i = 4 -> (n \div 4096) % 16
       [] OTHER -> 0]

\* a + b on u64
Add64(a, b) ==
  LET carry[i \in 0..16] ==
        IF i = 0 THEN 0 ELSE (a[i] + b[i] + carry[i - 1]) \div 16
  IN  [i \in 1..16 |-> (a[i] + b[i] + carry[i - 1]) % 16]

\* ((x >> 4) & 0xFFFF_FFFF) as u32
Shr4Low32(x) == [i \in 1..8 |-> x[i + 1]]

\* (x >> 32) as u32
Shr32(x) == [i \in 1..8 |-> x[i + 8]]

\* (x & 0xFF) as u8
LowByte(x) == x[1] + 16 * x[2]

(***************************************************************************)
(* SelectCache and DpState                                                 *)
(***************************************************************************)
\* SelectCache::DPv1(SelectV1(0))
SelectCache_DPv1_0 == [tag |-> "DPv1", select |-> ZeroReg, select1 |-> ZeroReg]

\* SelectCache::DPv3(SelectV3(0), Select1(0))
SelectCache_DPv3_0 == [tag |-> "DPv3", select |-> ZeroReg, select1 |-> ZeroReg]

DpState_new ==
  [debug_port_version |-> "Unsupported(255)",
   current_select |-> SelectCache_DPv1_0]

dp_bank_sel(cache) == cache.select.dp_bank_sel

set_dp_bank_sel(cache, bank) == [cache EXCEPT !.select.dp_bank_sel = bank]

(***************************************************************************)
(* Access ports: ApAddress::V1(port) and ApAddress::V2(base)               *)
(***************************************************************************)
ApV1(port) == [variant |-> "V1", port |-> port, base |-> <<>>]

ApV2(base) == [variant |-> "V2", port |-> 0, base |-> base]

\* 0x8000_0000 and 0x1_0000_0000_0000
Base_8000_0000 == [i \in 1..16 |-> IF i = 8 THEN 8 ELSE 0]

Base_1_0000_0000_0000 == [i \in 1..16 |-> IF i = 13 THEN 1 ELSE 0]

\* the AP registers a caller reads or writes, as <<access port, address>>:
\* 0xD4, 0xD8, 0x20 and 0x1D4 of the V1 port 3; 0x20 and 0x24 at the V2 base
\* 0x8000_0000, and 0x0 at the V2 base 0x1_0000_0000_0000
ApAccesses ==
  {<<ApV1(3), U64(212)>>, <<ApV1(3), U64(216)>>, <<ApV1(3), U64(32)>>,
   <<ApV1(3), U64(468)>>,
   <<ApV2(<<Base_8000_0000>>), U64(32)>>, <<ApV2(<<Base_8000_0000>>), U64(36)>>,
   <<ApV2(<<Base_1_0000_0000_0000>>), U64(0)>>}

(***************************************************************************)
(* The environment: one probe call or hook call                            *)
(***************************************************************************)
NoVal == [kind |-> "none", reg |-> [bank |-> <<>>, address |-> 0], v |-> ZeroReg]

RegOp(kind, reg, v) == [kind |-> kind, reg |-> reg, v |-> v]

Event(st, ev, dp, val, ok) ==
  [by |-> st.by, ev |-> ev, dp |-> dp, ok |-> ok, cur |-> st.cur,
   known |-> dp \in DOMAIN st.dps, ctx |-> st.ctx, val |-> val]

\* the call succeeds, or (within the failure budget) fails
Step(st, ev, dp, val) ==
  {[st EXCEPT !.log = Append(@, Event(st, ev, dp, val, TRUE)), !.res = "ok"]}
  \cup
  (IF st.nfail < MaxFail
   THEN {[st EXCEPT !.log = Append(@, Event(st, ev, dp, val, FALSE)),
                    !.res = "err", !.nfail = @ + 1]}
   ELSE {})

\* a position of the code the log remembers (no call, cannot fail)
Mark(st, ev, dp, val) ==
  [st EXCEPT !.log = Append(@, Event(st, ev, dp, val, TRUE))]

\* Result::ok(): the error is dropped
IgnoreErr(S) == {[s EXCEPT !.res = "ok"] : s \in S}

\* the issuer and the context of the caller are those of st again
Restore(S, st) == {[s EXCEPT !.by = st.by, !.ctx = st.ctx] : s \in S}

\* the values a register read may return: any orun_detect bit for CTRL, any
\* version field for DPIDR
ReadValues(dp, kind, reg) ==
  IF kind = "DP" /\ reg = CTRL_ADDRESS
  THEN {[ZeroReg EXCEPT !.orun_detect = b] : b \in BOOLEAN}
  ELSE IF kind = "DP" /\ reg = DPIDR_ADDRESS
  THEN {[ZeroReg EXCEPT !.version = v] : v \in DpidrValues(dp)}
  ELSE {ZeroReg}

\* RawDapAccess::raw_read_register and raw_read_block; the log keeps the value
\* read
raw_read(st, ev, dp, kind, reg) ==
  UNION {IF s.res = "ok"
         THEN {[s EXCEPT !.ret = v, !.log[Len(s.log)].val.v = v] :
                 v \in ReadValues(dp, kind, reg)}
         ELSE {s} : s \in Step(st, ev, dp, RegOp(kind, reg, ZeroReg))}

\* the target's SELECT and SELECT1 registers take the value the probe accepted
HwWrite(s, kind, reg, value) ==
  IF kind = "DP" /\ reg = SELECT_ADDRESS /\ s.cur \in DPs
  THEN [s EXCEPT !.hw[s.cur].select = <<value>>]
  ELSE IF kind = "DP" /\ reg = SELECT1_ADDRESS /\ s.cur \in DPs
  THEN [s EXCEPT !.hw[s.cur].select1 = <<value>>]
  ELSE s

\* RawDapAccess::raw_write_register and raw_write_block
raw_write(st, ev, dp, kind, reg, value) ==
  {IF s.res = "ok" THEN HwWrite(s, kind, reg, value) ELSE s :
     s \in Step(st, ev, dp, RegOp(kind, reg, value))}

(***************************************************************************)
(* DP selection and DP bank selection                                      *)
(***************************************************************************)
RECURSIVE select_dp(_, _)
RECURSIVE select_dp_and_dp_bank(_, _, _)
RECURSIVE read_raw_dp_register(_, _, _)
RECURSIVE write_raw_dp_register(_, _, _, _)

\* sequence.debug_port_start(self, dp): the hook fails at once, or does
\* nothing, or re-enters the interface with a DP register read on dp (a hook
\* that is itself called from such a read does not re-enter again)
debug_port_start(st, dp) ==
  UNION {IF s.res # "ok" \/ st.ctx = "hook"
         THEN {s}
         ELSE {s} \cup
              UNION {Restore(read_raw_dp_register(
                               [s EXCEPT !.by = "hook", !.ctx = "hook"], dp, r), s) :
                       r \in s.hook} :
           s \in Step(st, "debug_port_start", dp, NoVal)}

\* fault: select_dp returns the error of debug_port_connect instead of falling
\* back to debug_port_setup
select_dp_switch_NoFallback(st, dp) ==
  UNION {IF a.res # "ok"
         THEN {a}
         ELSE LET hooked ==
                    IF a.cur = NoDp
                    THEN Step(a, "debug_port_setup", dp, NoVal)
                    ELSE Step(a, "debug_port_connect", dp, NoVal)
              IN  {IF h.res = "ok" THEN [h EXCEPT !.cur = dp] ELSE h : h \in hooked} :
           a \in Step(st, "raw_flush", dp, NoVal)}

\* fault: current_dp is set as soon as the flush has succeeded, before the
\* connect or setup hook has
select_dp_switch_SetsCurrentEarly(st, dp) ==
  UNION {IF a.res # "ok"
         THEN {a}
         ELSE LET hooked ==
                    IF a.cur = NoDp
                    THEN Step(a, "debug_port_setup", dp, NoVal)
                    ELSE UNION {IF c.res = "ok"
                                THEN {c}
                                ELSE Step(c, "debug_port_setup", dp, NoVal) :
                                  c \in Step(a, "debug_port_connect", dp, NoVal)}
              IN  {[h EXCEPT !.cur = dp] : h \in hooked} :
           a \in Step(st, "raw_flush", dp, NoVal)}

\* select_dp, the switch to another DP: flush, then setup, or connect with
\* setup as the fallback
select_dp_switch(st, dp) ==
  UNION {IF a.res # "ok"
         THEN {a}
         ELSE LET hooked ==
                    IF a.cur = NoDp
                    THEN Step(a, "debug_port_setup", dp, NoVal)
                    ELSE UNION {IF c.res = "ok"
                                THEN {c}
                                ELSE Step(c, "debug_port_setup", dp, NoVal) :
                                  c \in Step(a, "debug_port_connect", dp, NoVal)}
              IN  {IF h.res = "ok" THEN [h EXCEPT !.cur = dp] ELSE h : h \in hooked} :
           a \in Step(st, "raw_flush", dp, NoVal)}

\* fault: the first touch writes CTRL whether or not orun_detect differs
select_dp_init_AlwaysWritesCtrl(st, dp) ==
  LET afterCtrl ==
        UNION {IF b.res = "ok"
               THEN write_raw_dp_register(b, dp, CTRL_ADDRESS,
                                          [b.ret EXCEPT !.orun_detect = b.uod])
               ELSE {b} :
                 b \in read_raw_dp_register(st, dp, CTRL_ADDRESS)}
      afterIdr ==
        UNION {IF c.res = "ok"
               THEN read_raw_dp_register(c, dp, DPIDR_ADDRESS)
               ELSE {c} : c \in afterCtrl}
  IN  {IF d.res # "ok"
       THEN d
       ELSE LET version == VersionOf(d.ret.version)
            IN  [d EXCEPT !.dps[dp].debug_port_version = version,
                          !.dps[dp].current_select =
                             IF version = "DPv3" THEN SelectCache_DPv3_0 ELSE @] :
         d \in afterIdr}

\* fault: the first touch records the version and leaves the cache as it is
select_dp_init_NoRetag(st, dp) ==
  LET afterCtrl ==
        UNION {IF b.res = "ok" /\ b.ret.orun_detect # b.uod
               THEN write_raw_dp_register(b, dp, CTRL_ADDRESS,
                                          [b.ret EXCEPT !.orun_detect = b.uod])
               ELSE {b} :
                 b \in read_raw_dp_register(st, dp, CTRL_ADDRESS)}
      afterIdr ==
        UNION {IF c.res = "ok"
               THEN read_raw_dp_register(c, dp, DPIDR_ADDRESS)
               ELSE {c} : c \in afterCtrl}
  IN  {IF d.res # "ok"
       THEN d
       ELSE [d EXCEPT !.dps[dp].debug_port_version = VersionOf(d.ret.version)] :
         d \in afterIdr}

\* select_dp, the first touch of a DP after its DpState is inserted and the
\* start hook has returned Ok: CTRL, orun_detect, DPIDR, version, retag
select_dp_init(st, dp) ==
  LET afterCtrl ==
        UNION {IF b.res = "ok" /\ b.ret.orun_detect # b.uod
               THEN write_raw_dp_register(b, dp, CTRL_ADDRESS,
                                          [b.ret EXCEPT !.orun_detect = b.uod])
               ELSE {b} :
                 b \in read_raw_dp_register(st, dp, CTRL_ADDRESS)}
      afterIdr ==
        UNION {IF c.res = "ok"
               THEN read_raw_dp_register(c, dp, DPIDR_ADDRESS)
               ELSE {c} : c \in afterCtrl}
  IN  {IF d.res # "ok"
       THEN d
       ELSE LET version == VersionOf(d.ret.version)
            IN  [d EXCEPT !.dps[dp].debug_port_version = version,
                          !.dps[dp].current_select =
                             IF version = "DPv3" THEN SelectCache_DPv3_0 ELSE @] :
         d \in afterIdr}

\* fault: the start hook of the first touch runs before the DpState is
\* inserted
select_dp_StartsBeforeInsert(st, dp) ==
  LET switched_dp == st.cur # dp
      st0 == [st EXCEPT !.by = "select_dp"]
      connected == IF switched_dp THEN select_dp_switch(st0, dp) ELSE {st0}
      started(s) ==
        IF dp \notin DOMAIN s.dps
        THEN UNION {IF a.res = "ok"
                    THEN select_dp_init([a EXCEPT !.ctx = "init",
                                                  !.dps = (dp :> DpState_new) @@ a.dps], dp)
                    ELSE {a} : a \in debug_port_start(s, dp)}
        ELSE IF switched_dp
        THEN debug_port_start(s, dp)
        ELSE {s}
  IN  Restore(UNION {IF s.res = "ok" THEN started(s) ELSE {s} : s \in connected}, st)

\* fault: select_dp takes current_dp back when the start hook fails
select_dp_ClearsCurrentOnStartFailure(st, dp) ==
  LET switched_dp == st.cur # dp
      st0 == [st EXCEPT !.by = "select_dp"]
      connected == IF switched_dp THEN select_dp_switch(st0, dp) ELSE {st0}
      undone(S) == {IF a.res = "ok" THEN a ELSE [a EXCEPT !.cur = NoDp] : a \in S}
      started(s) ==
        IF dp \notin DOMAIN s.dps
        THEN LET ins == [s EXCEPT !.dps = (dp :> DpState_new) @@ s.dps]
             IN  UNION {IF a.res = "ok"
                        THEN select_dp_init([a EXCEPT !.ctx = "init"], dp)
                        ELSE {a} : a \in undone(debug_port_start(ins, dp))}
        ELSE IF switched_dp
        THEN undone(debug_port_start(s, dp))
        ELSE {s}
  IN  Restore(UNION {IF s.res = "ok" THEN started(s) ELSE {s} : s \in connected}, st)

\* fault: a DP that has cached state is not started again after a switch
select_dp_NoRestart(st, dp) ==
  LET switched_dp == st.cur # dp
      st0 == [st EXCEPT !.by = "select_dp"]
      connected == IF switched_dp THEN select_dp_switch(st0, dp) ELSE {st0}
      started(s) ==
        IF dp \notin DOMAIN s.dps
        THEN LET ins == [s EXCEPT !.dps = (dp :> DpState_new) @@ s.dps]
             IN  UNION {IF a.res = "ok"
                        THEN select_dp_init([a EXCEPT !.ctx = "init"], dp)
                        ELSE {a} : a \in debug_port_start(ins, dp)}
        ELSE {s}
  IN  Restore(UNION {IF s.res = "ok" THEN started(s) ELSE {s} : s \in connected}, st)

select_dp(st, dp) ==
  LET switched_dp == st.cur # dp
      st0 == [st EXCEPT !.by = "select_dp"]
      connected == IF switched_dp THEN select_dp_switch(st0, dp) ELSE {st0}
      started(s) ==
        IF dp \notin DOMAIN s.dps
        THEN LET ins == [s EXCEPT !.dps = (dp :> DpState_new) @@ s.dps]
             IN  UNION {IF a.res = "ok"
                        THEN select_dp_init([a EXCEPT !.ctx = "init"], dp)
                        ELSE {a} : a \in debug_port_start(ins, dp)}
        ELSE IF switched_dp
        THEN debug_port_start(s, dp)
        ELSE {s}
  IN  Restore(UNION {IF s.res = "ok" THEN started(s) ELSE {s} : s \in connected}, st)

\* fault: every address but that of SELECT itself is taken as banked
select_dp_and_dp_bank_BanksEveryAddress(st, dp, dp_register_address) ==
  LET banked(s) ==
        IF dp_register_address.address = 8
        THEN {s}
        ELSE LET bank == UnwrapOr0(dp_register_address.bank)
                 cache == s.dps[dp].current_select
                 s0 == [s EXCEPT !.by = "select_dp_and_dp_bank"]
             IN  IF bank # dp_bank_sel(cache)
                 THEN LET changed == set_dp_bank_sel(cache, bank)
                          m == [s0 EXCEPT !.dps[dp].current_select = changed]
                      IN  write_raw_dp_register(m, dp, SELECT_ADDRESS, changed.select)
                 ELSE {s0}
  IN  Restore(UNION {IF s.res = "ok" THEN banked(s) ELSE {s} : s \in select_dp(st, dp)}, st)

select_dp_and_dp_bank(st, dp, dp_register_address) ==
  LET banked(s) ==
        IF dp_register_address.address # 0 /\ dp_register_address.address # 4
        THEN {s}
        ELSE LET bank == UnwrapOr0(dp_register_address.bank)
                 cache == s.dps[dp].current_select
                 s0 == [s EXCEPT !.by = "select_dp_and_dp_bank"]
             IN  IF bank # dp_bank_sel(cache)
                 THEN LET changed == set_dp_bank_sel(cache, bank)
                          m == [s0 EXCEPT !.dps[dp].current_select = changed]
                      IN  write_raw_dp_register(m, dp, SELECT_ADDRESS, changed.select)
                 ELSE {s0}
  IN  Restore(UNION {IF s.res = "ok" THEN banked(s) ELSE {s} : s \in select_dp(st, dp)}, st)

read_raw_dp_register(st, dp, address) ==
  UNION {IF s.res = "ok"
         THEN raw_read(s, "raw_read_register", dp, "DP", address)
         ELSE {s} : s \in select_dp_and_dp_bank(st, dp, address)}

write_raw_dp_register(st, dp, address, value) ==
  UNION {IF s.res = "ok"
         THEN raw_write(s, "raw_write_register", dp, "DP", address, value)
         ELSE {s} : s \in select_dp_and_dp_bank(st, dp, address)}

(***************************************************************************)
(* AP bank selection and the raw AP accesses                               *)
(***************************************************************************)
Fq(dp, ap) == [dp |-> dp, ap |-> ap]

\* fault: select_ap_and_ap_bank writes SELECT without comparing the new select
\* with the previous one
select_ap_write_Always(st, dp, previous_select, current_select) ==
  LET m == [st EXCEPT !.dps[dp].current_select = current_select]
  IN  IF current_select.tag = "DPv1"
      THEN write_raw_dp_register(m, dp, SELECT_ADDRESS, current_select.select)
      ELSE UNION {IF a.res = "ok"
                  THEN write_raw_dp_register(a, dp, SELECT1_ADDRESS,
                                             current_select.select1)
                  ELSE {a} :
                    a \in write_raw_dp_register(m, dp, SELECT_ADDRESS,
                                                current_select.select)}

\* select_ap_and_ap_bank from `if previous_select != dp_state.current_select`
select_ap_write(st, dp, previous_select, current_select) ==
  IF previous_select # current_select
  THEN LET m == [st EXCEPT !.dps[dp].current_select = current_select]
       IN  IF current_select.tag = "DPv1"
           THEN write_raw_dp_register(m, dp, SELECT_ADDRESS, current_select.select)
           ELSE UNION {IF a.res = "ok"
                       THEN write_raw_dp_register(a, dp, SELECT1_ADDRESS,
                                                  current_select.select1)
                       ELSE {a} :
                         a \in write_raw_dp_register(m, dp, SELECT_ADDRESS,
                                                     current_select.select)}
  ELSE {st}

select_ap_and_ap_bank(st, ap, ap_register_address) ==
  LET dp == ap.dp
      banked(s) ==
        LET previous_select == s.dps[dp].current_select
            s0 == [s EXCEPT !.by = "select_ap_and_ap_bank"]
        IN  IF ap.ap.variant = "V1" /\ previous_select.tag = "DPv1"
            THEN LET reg8 == LowByte(ap_register_address)
                     ap_bank == reg8 \div 16
                 IN  select_ap_write(s0, dp, previous_select,
                       [previous_select EXCEPT !.select.ap_sel = ap.ap.port,
                                               !.select.ap_bank_sel = ap_bank])
            ELSE IF ap.ap.variant = "V2" /\ previous_select.tag = "DPv3"
            THEN LET base == IF ap.ap.base = <<>> THEN U64(0) ELSE ap.ap.base[1]
                     address == Add64(base, ap_register_address)
                 IN  select_ap_write(s0, dp, previous_select,
                       [previous_select EXCEPT !.select.addr = Shr4Low32(address),
                                               !.select1.addr = Shr32(address)])
            ELSE {[s EXCEPT !.res = "panic"]}
  IN  Restore(UNION {IF s.res = "ok" THEN banked(s) ELSE {s} : s \in select_dp(st, dp)}, st)

\* fault: the wire address keeps only the low four bits of the address
ApRegister_LowNibble(address) == [bank |-> <<>>, address |-> address[1]]

\* RegisterAddress::ApRegister((address & 0xFF) as u8)
ApRegister(address) == [bank |-> <<>>, address |-> LowByte(address)]

read_raw_ap_register(st, ap, address) ==
  UNION {IF s.res = "ok"
         THEN raw_read(s, "raw_read_register", ap.dp, "AP", ApRegister(address))
         ELSE {s} : s \in select_ap_and_ap_bank(st, ap, address)}

read_raw_ap_register_repeated(st, ap, address) ==
  UNION {IF s.res = "ok"
         THEN raw_read(s, "raw_read_block", ap.dp, "AP", ApRegister(address))
         ELSE {s} : s \in select_ap_and_ap_bank(st, ap, address)}

write_raw_ap_register(st, ap, address, value) ==
  UNION {IF s.res = "ok"
         THEN raw_write(s, "raw_write_register", ap.dp, "AP", ApRegister(address), value)
         ELSE {s} : s \in select_ap_and_ap_bank(st, ap, address)}

\* fault: the block write is issued whatever the bank selection returned
write_raw_ap_register_repeated_Unchecked(st, ap, address, value) ==
  UNION {raw_write([s EXCEPT !.res = "ok"], "raw_write_block", ap.dp, "AP",
                   ApRegister(address), value) :
           s \in select_ap_and_ap_bank(st, ap, address)}

write_raw_ap_register_repeated(st, ap, address, value) ==
  UNION {IF s.res = "ok"
         THEN raw_write(s, "raw_write_block", ap.dp, "AP", ApRegister(address), value)
         ELSE {s} : s \in select_ap_and_ap_bank(st, ap, address)}

(***************************************************************************)
(* disconnect, reinitialize, close, drop, access_ports                     *)
(***************************************************************************)
RECURSIVE Orders(_)
\* the orders in which HashMap::keys() may yield the keys S
Orders(S) ==
  IF S = {} THEN {<<>>}
  ELSE UNION {{<<x>> \o o : o \in Orders(S \ {x})} : x \in S}

RECURSIVE disconnect_others_Abort(_, _, _)
\* fault: the loop of disconnect ends at the first debug_port_connect that fails
disconnect_others_Abort(S, order, i) ==
  IF i > Len(order)
  THEN S
  ELSE UNION {IF c.res = "ok"
              THEN disconnect_others_Abort(
                     IgnoreErr(Step(c, "debug_port_stop", order[i], NoVal)), order, i + 1)
              ELSE {[c EXCEPT !.res = "ok"]} :
                c \in UNION {Step(s, "debug_port_connect", order[i], NoVal) : s \in S}}

RECURSIVE disconnect_others(_, _, _)
\* disconnect, the loop over the other DPs from the i-th key of the order on
disconnect_others(S, order, i) ==
  IF i > Len(order)
  THEN S
  ELSE disconnect_others(
         UNION {IF c.res = "ok"
                THEN IgnoreErr(Step(c, "debug_port_stop", order[i], NoVal))
                ELSE {[c EXCEPT !.res = "ok"]} :
                  c \in UNION {Step(s, "debug_port_connect", order[i], NoVal) : s \in S}},
         order, i + 1)

\* fault: disconnect returns at once, without the flush, when no DP is current
disconnect_ReturnsEarly(st) ==
  IF ~st.probe
  THEN {[st EXCEPT !.res = "panic"]}
  ELSE LET m == Mark([st EXCEPT !.by = "disconnect"], "disconnect", st.cur, NoVal)
       IN  IF m.cur = NoDp
           THEN Restore({m}, st)
           ELSE LET current_dp_ == m.cur
                    taken == [m EXCEPT !.cur = NoDp]
                    stopped ==
                      UNION {disconnect_others(
                               IgnoreErr(Step(taken, "debug_port_stop", current_dp_, NoVal)),
                               order, 1) :
                               order \in Orders(DOMAIN m.dps \ {current_dp_})}
                IN  Restore(IgnoreErr(UNION {Step(s, "raw_flush", NoDp, NoVal) :
                                               s \in stopped}), st)

disconnect(st) ==
  IF ~st.probe
  THEN {[st EXCEPT !.res = "panic"]}
  ELSE LET m == Mark([st EXCEPT !.by = "disconnect"], "disconnect", st.cur, NoVal)
           stopped ==
             IF m.cur # NoDp
             THEN LET current_dp_ == m.cur
                      taken == [m EXCEPT !.cur = NoDp]
                  IN  UNION {disconnect_others(
                               IgnoreErr(Step(taken, "debug_port_stop", current_dp_, NoVal)),
                               order, 1) :
                               order \in Orders(DOMAIN m.dps \ {current_dp_})}
             ELSE {m}
       IN  Restore(IgnoreErr(UNION {Step(s, "raw_flush", NoDp, NoVal) : s \in stopped}), st)

\* fault: reinitialize reads current_dp after disconnect has taken it
reinitialize_ReadsCurrentLate(st) ==
  UNION {IF d.res # "ok"
         THEN {d}
         ELSE IF d.cur # NoDp
         THEN {[d EXCEPT !.res = "panic"]}
         ELSE LET current_dp_ == d.cur
              IN  IF current_dp_ # NoDp THEN select_dp(d, current_dp_) ELSE {d} :
           d \in disconnect(st)}

\* fault: reinitialize starts again from an empty map of debug ports
reinitialize_ForgetsDps(st) ==
  LET current_dp_ == st.cur
  IN  UNION {IF d.res # "ok"
             THEN {d}
             ELSE IF d.cur # NoDp
             THEN {[d EXCEPT !.res = "panic"]}
             ELSE IF current_dp_ # NoDp
             THEN select_dp([d EXCEPT !.dps = [x \in {} |-> DpState_new]], current_dp_)
             ELSE {d} : d \in disconnect(st)}

reinitialize(st) ==
  LET current_dp_ == st.cur
  IN  UNION {IF d.res # "ok"
             THEN {d}
             ELSE IF d.cur # NoDp
             THEN {[d EXCEPT !.res = "panic"]}
             ELSE IF current_dp_ # NoDp
             THEN select_dp(d, current_dp_)
             ELSE {d} : d \in disconnect(st)}

\* impl Drop for ArmCommunicationInterface
drop(st) ==
  IF st.probe
  THEN {IF d.res = "ok" THEN [d EXCEPT !.probe = FALSE] ELSE d : d \in disconnect(st)}
  ELSE {st}

\* fault: close leaves the probe in its slot
close_KeepsProbe(st) ==
  UNION {IF d.res = "ok" THEN drop(d) ELSE {d} : d \in disconnect(st)}

\* ArmCommunicationInterface::close; self is dropped as close returns
close(st) ==
  UNION {IF d.res = "ok" THEN drop([d EXCEPT !.probe = FALSE]) ELSE {d} :
           d \in disconnect(st)}

access_ports(st, dp) ==
  {IF s.res # "ok"
   THEN s
   ELSE LET version == s.dps[dp].debug_port_version
        IN  IF version \in {"DPv0", "DPv1", "DPv2"}
            THEN [s EXCEPT !.out = "valid_access_ports"]
            ELSE IF version = "DPv3"
            THEN [s EXCEPT !.out = "enumerate_access_ports"]
            ELSE [s EXCEPT !.res = "panic"] :
     s \in select_dp(st, dp)}

(***************************************************************************)
(* read_chip_info_from_rom_table                                           *)
(***************************************************************************)
\* the access ports access_ports returns, in their order
RomAps == 1..MaxAps

\* a call of the memory interface of an access port
ApStep(st, ev, dp) ==
  Step(st, ev, dp, RegOp("AP", [bank |-> <<>>, address |-> 0], ZeroReg))

\* what Component::try_parse finds at the base address: a Class-1 ROM table
\* whose peripheral id has a JEP106 code, or anything else
Components == {"Class1RomTable", "Other"}

RECURSIVE rom_walk(_, _, _)
\* the body of `for ap in probe.access_ports(dp)?`, from the access port k on
rom_walk(st, dp, k) ==
  IF k \notin RomAps
  THEN {[st EXCEPT !.out = "None"]}
  ELSE UNION {
         IF m.res # "ok"
         THEN rom_walk([m EXCEPT !.res = "ok"], dp, k + 1)
         ELSE UNION {
                IF b.res # "ok"
                THEN {b}
                ELSE UNION {
                       IF c.res # "ok"
                       THEN {c}
                       ELSE {[c EXCEPT !.out = "Some"]} \cup rom_walk(c, dp, k + 1) :
                         c \in ApStep(b, "try_parse", dp)} :
                  b \in ApStep(m, "base_address", dp)} :
           m \in ApStep(st, "memory_interface", dp)}

read_chip_info_from_rom_table(st, dp) ==
  UNION {IF a.res # "ok"
         THEN {a}
         ELSE rom_walk([a EXCEPT !.by = "read_chip_info_from_rom_table"], dp, 1) :
           a \in access_ports(st, dp)}

(***************************************************************************)
(* The interface as a state machine                                        *)
(***************************************************************************)
EmptyMap == [d \in {} |-> DpState_new]

NoReg == [bank |-> <<>>, address |-> 0]

\* a call of the interface: the operation and its arguments
Call(op, dp) ==
  [op |-> op, dp |-> dp, reg |-> NoReg, ap |-> ApV1(0), address |-> U64(0)]

DpCall(op, dp, reg) == [Call(op, dp) EXCEPT !.reg = reg]

ApCall(op, dp, ap, address) == [Call(op, dp) EXCEPT !.ap = ap, !.address = address]

\* a call with its Result: res is "ok", "err" or "panic"
Outcome(call, res, out) ==
  [op |-> call.op, dp |-> call.dp, reg |-> call.reg, ap |-> call.ap,
   address |-> call.address, res |-> res, out |-> out]

\* ArmCommunicationInterface::create
Init ==
  /\ probe = TRUE
  /\ current_dp = NoDp
  /\ dps = EmptyMap
  /\ use_overrun_detect \in BOOLEAN
  /\ hook_regs = {}
  /\ hw = [d \in DPs |-> [select |-> <<>>, select1 |-> <<>>]]
  /\ log = <<>>
  /\ last = Outcome(Call("create", NoDp), "ok", "")

\* create, with a sequence whose debug_port_start reads a DP register of the
\* DP it starts
InitHook ==
  /\ probe = TRUE
  /\ current_dp = NoDp
  /\ dps = EmptyMap
  /\ use_overrun_detect \in BOOLEAN
  /\ hook_regs \in {{DPIDR_ADDRESS}, {DLCR_ADDRESS}}
  /\ hw = [d \in DPs |-> [select |-> <<>>, select1 |-> <<>>]]
  /\ log = <<>>
  /\ last = Outcome(Call("create", NoDp), "ok", "")

\* the run record an operation starts from
Begin ==
  [probe |-> probe, cur |-> current_dp, dps |-> dps, hw |-> hw, log |-> <<>>,
   nfail |-> 0, res |-> "ok", ret |-> ZeroReg, ctx |-> "top", by |-> "caller",
   uod |-> use_overrun_detect, hook |-> hook_regs, out |-> ""]

\* the call has run as r
Commit(r, call) ==
  /\ probe' = r.probe
  /\ current_dp' = r.cur
  /\ dps' = r.dps
  /\ hw' = r.hw
  /\ log' = r.log
  /\ last' = Outcome(call, r.res, r.out)
  /\ UNCHANGED <<use_overrun_detect, hook_regs>>

\* no operation is under observation: the interface is live and the caller
\* is about to make its next call
Ready == probe /\ last.op \in {"create", "idle"}

\* the caller has taken the result of the last operation: the record of its
\* probe traffic is dropped
Return ==
  /\ last.op \notin {"create", "idle"}
  /\ last' = Outcome(Call("idle", NoDp), "ok", "")
  /\ log' = <<>>
  /\ UNCHANGED <<probe, current_dp, dps, use_overrun_detect, hook_regs, hw>>

SelectDebugPort(D) ==
  /\ Ready
  /\ \E dp \in D : \E r \in select_dp(Begin, dp) : Commit(r, Call("select_debug_port", dp))

AccessPorts(D) ==
  /\ Ready
  /\ \E dp \in D : \E r \in access_ports(Begin, dp) : Commit(r, Call("access_ports", dp))

ReadDpRegister(D) ==
  /\ Ready
  /\ \E dp \in D, reg \in DpRegs :
       \E r \in read_raw_dp_register(Begin, dp, reg) :
         Commit(r, DpCall("read_raw_dp_register", dp, reg))

WriteDpRegister(D) ==
  /\ Ready
  /\ \E dp \in D, reg \in DpRegs :
       \E r \in write_raw_dp_register(Begin, dp, reg, ZeroReg) :
         Commit(r, DpCall("write_raw_dp_register", dp, reg))

ReadApRegister(D) ==
  /\ Ready
  /\ \E dp \in D, a \in ApAccesses :
       \E r \in read_raw_ap_register(Begin, Fq(dp, a[1]), a[2]) :
         Commit(r, ApCall("read_raw_ap_register", dp, a[1], a[2]))

ReadApRegisterRepeated(D) ==
  /\ Ready
  /\ \E dp \in D, a \in ApAccesses :
       \E r \in read_raw_ap_register_repeated(Begin, Fq(dp, a[1]), a[2]) :
         Commit(r, ApCall("read_raw_ap_register_repeated", dp, a[1], a[2]))

WriteApRegister(D) ==
  /\ Ready
  /\ \E dp \in D, a \in ApAccesses :
       \E r \in write_raw_ap_register(Begin, Fq(dp, a[1]), a[2], ZeroReg) :
         Commit(r, ApCall("write_raw_ap_register", dp, a[1], a[2]))

WriteApRegisterRepeated(D) ==
  /\ Ready
  /\ \E dp \in D, a \in ApAccesses :
       \E r \in write_raw_ap_register_repeated(Begin, Fq(dp, a[1]), a[2], ZeroReg) :
         Commit(r, ApCall("write_raw_ap_register_repeated", dp, a[1], a[2]))

Reinitialize ==
  /\ Ready
  /\ \E r \in reinitialize(Begin) : Commit(r, Call("reinitialize", current_dp))

Close ==
  /\ Ready
  /\ \E r \in close(Begin) : Commit(r, Call("close", current_dp))

Drop ==
  /\ Ready
  /\ \E r \in drop(Begin) : Commit(r, Call("drop", current_dp))

ReadChipInfo(D) ==
  /\ Ready
  /\ \E dp \in D :
       \E r \in read_chip_info_from_rom_table(Begin, dp) :
         Commit(r, Call("read_chip_info_from_rom_table", dp))

\* The register accesses of one DP, with a second DP to switch to
Next ==
  \/ SelectDebugPort(AccessDPs \cup OtherDPs)
  \/ ReadDpRegister(AccessDPs)
  \/ WriteDpRegister(AccessDPs)
  \/ ReadApRegister(AccessDPs)
  \/ WriteApRegister(AccessDPs)
  \/ Reinitialize
  \/ Return

Spec == Init /\ [][Next]_vars

\* The life of the interface over all the DPs: selection, reinitialize and
\* the two ways it ends
NextLife ==
  \/ SelectDebugPort(DPs)
  \/ AccessPorts(DPs)
  \/ Reinitialize
  \/ Close
  \/ Drop
  \/ Return

SpecLife == Init /\ [][NextLife]_vars

\* The raw DP and AP accesses, single and block, of one DP
NextAp ==
  \/ ReadApRegister(AccessDPs)
  \/ ReadApRegisterRepeated(AccessDPs)
  \/ WriteApRegister(AccessDPs)
  \/ WriteApRegisterRepeated(AccessDPs)
  \/ ReadDpRegister(AccessDPs)
  \/ WriteDpRegister(AccessDPs)
  \/ Return

SpecAp == Init /\ [][NextAp]_vars

\* ROM-table discovery over all the DPs, fresh or selected before
NextRom ==
  \/ SelectDebugPort(DPs)
  \/ ReadChipInfo(DPs)
  \/ Return

SpecRom == Init /\ [][NextRom]_vars

\* Selection, register reads and reinitialize with a start hook that
\* re-enters the interface
NextHook ==
  \/ SelectDebugPort(AccessDPs \cup OtherDPs)
  \/ ReadDpRegister(AccessDPs)
  \/ Reinitialize
  \/ Return

SpecHook == InitHook /\ [][NextHook]_vars

(***************************************************************************)
(* Properties.  In the state after an operation, last is the call and its  *)
(* Result and log is its probe and hook traffic; in a step, the unprimed   *)
(* variables are the interface before the call.                            *)
(***************************************************************************)
DpAccessOps == {"read_raw_dp_register", "write_raw_dp_register"}

ApAccessOps ==
  {"read_raw_ap_register", "write_raw_ap_register",
   "read_raw_ap_register_repeated", "write_raw_ap_register_repeated"}

SelectOps == {"select_debug_port", "access_ports"}

DisconnectOps == {"close", "drop", "reinitialize"}

\* the calls of the log l that are the hook or probe call ev
Calls(l, ev) == {i \in 1..Len(l) : l[i].ev = ev}

\* ... made by the function by of the interface
CallsBy(l, ev, by) == {i \in Calls(l, ev) : l[i].by = by}

\* ... made for the debug port dp
CallsFor(l, ev, dp) == {i \in Calls(l, ev) : l[i].dp = dp}

\* the writes of the DP register reg in the log l
RegWrites(l, reg) ==
  {i \in Calls(l, "raw_write_register") : l[i].val.kind = "DP" /\ l[i].val.reg = reg}

\* the value last written to a SELECT register, all-zeros if none was
LastWritten(w) == IF w = <<>> THEN ZeroReg ELSE w[1]

(***************************************************************************)
(* C1                                                                      *)
(***************************************************************************)
\* C1: in every reachable state, for every DP with cached state, the select
\* cache (SELECT on DPv1, SELECT and SELECT1 on DPv3) equals the last value
\* written to the probe's SELECT register(s) of that DP, or all-zeros if none
\* was written, also when the SELECT write of a bank selection fails
C1_CacheIsLastWritten ==
  \A d \in DOMAIN dps :
    LET cache == dps[d].current_select
    IN  /\ cache.select = LastWritten(hw[d].select)
        /\ cache.tag = "DPv3" => cache.select1 = LastWritten(hw[d].select1)

(***************************************************************************)
(* C2                                                                      *)
(***************************************************************************)
\* the select cache of dp that the bank selection of a call starts from: the
\* one of the state before the call, or the one the first touch leaves
CacheBefore(dp) ==
  IF dp \in DOMAIN dps
  THEN dps[dp].current_select
  ELSE IF dp \in DOMAIN dps' /\ dps'[dp].current_select.tag = "DPv3"
  THEN SelectCache_DPv3_0
  ELSE SelectCache_DPv1_0

\* the access port of the call can be addressed through the cache's shape
Addressable(cache, call) ==
  \/ call.op \in DpAccessOps
  \/ call.ap.variant = "V1" /\ cache.tag = "DPv1"
  \/ call.ap.variant = "V2" /\ cache.tag = "DPv3"

\* the part of the cache the call depends on: dp_bank for a banked DP
\* register, (ap, ap_bank) for a V1 access port, the address halves for V2
TupleIn(cache, call) ==
  IF call.op \in DpAccessOps
  THEN IF call.reg.address \in {0, 4} THEN <<cache.select.dp_bank_sel>> ELSE <<>>
  ELSE IF cache.tag = "DPv1"
  THEN <<cache.select.ap_sel, cache.select.ap_bank_sel>>
  ELSE <<cache.select.addr, cache.select1.addr>>

\* the tuple the call requires
TupleOf(cache, call) ==
  IF call.op \in DpAccessOps
  THEN IF call.reg.address \in {0, 4} THEN <<UnwrapOr0(call.reg.bank)>> ELSE <<>>
  ELSE IF cache.tag = "DPv1"
  THEN <<call.ap.port, LowByte(call.address) \div 16>>
  ELSE LET address ==
             Add64(IF call.ap.base = <<>> THEN U64(0) ELSE call.ap.base[1], call.address)
       IN  <<Shr4Low32(address), Shr32(address)>>

\* the bank selection the call goes through
SelectorOf(call) ==
  IF call.op \in DpAccessOps THEN "select_dp_and_dp_bank" ELSE "select_ap_and_ap_bank"

\* the SELECT writes the bank selection of the call issued
SelectWritesOf(l, call) ==
  {i \in RegWrites(l, SELECT_ADDRESS) : l[i].by = SelectorOf(call)}

C2_Access ==
  (last'.op \in DpAccessOps \cup ApAccessOps /\ Addressable(CacheBefore(last'.dp), last')) =>
    LET call == last'
        before == CacheBefore(call.dp)
        same == TupleIn(before, call) = TupleOf(before, call)
        writes == SelectWritesOf(log', call)
    IN  /\ same =>
             RegWrites(log', SELECT_ADDRESS) \cup RegWrites(log', SELECT1_ADDRESS) = {}
        /\ Cardinality(writes) <= 1
        /\ (~same /\ call.res = "ok") => Cardinality(writes) = 1
        /\ \A i \in writes : \A j \in 1..Len(log') : log'[j].by = "caller" => i < j
        /\ call.res = "ok" => log'[Len(log')].by = "caller"
        /\ (call.res = "ok" \/ writes # {}) =>
             /\ call.dp \in DOMAIN dps'
             /\ TupleIn(dps'[call.dp].current_select, call)
                  = TupleOf(dps'[call.dp].current_select, call)

FreshRun ==
  [Begin EXCEPT !.cur = NoDp, !.dps = EmptyMap,
                !.hw = [d \in DPs |-> [select |-> <<>>, select1 |-> <<>>]]]

\* C3: reinitialize() on an interface whose current DP is d yields the state
\* of a fresh create followed by select_debug_port(d): the same current_dp,
\* the same set of DPs with cached state, and for d the same select cache and
\* the same debug_port_version
C3_ReinitializeEqualsFresh ==
  (last.op = "reinitialize" /\ last.dp # NoDp /\ last.res = "ok") =>
    \E f \in select_dp(FreshRun, last.dp) :
      /\ f.res = "ok"
      /\ f.cur = current_dp
      /\ f.dps = dps

(***************************************************************************)
(* C4                                                                      *)
(***************************************************************************)
C4_Access ==
  (/\ last'.op \in ApAccessOps
   /\ last'.dp \in DOMAIN dps'
   /\ dps'[last'.dp].current_select.tag = "DPv3") =>
    (dps'[last'.dp].current_select.select1 = CacheBefore(last'.dp).select1
       => RegWrites(log', SELECT1_ADDRESS) = {})

\* C4: on a DPv3 DP, SELECT1 is written only when the high address bits held
\* in SELECT1 change; an AP bank selection that changes only SELECT.addr
\* issues no SELECT1 write
C4_Select1WrittenOnlyWhenItChanges == [][C4_Access]_vars

(***************************************************************************)
(* C5                                                                      *)
(***************************************************************************)
\* C5: after close() or drop, disconnect has run exactly once (the drop that
\* follows close does not run it again), raw_flush was attempted as its last
\* step, and the probe slot is empty
C5_DisconnectOnceFlushLast ==
  last.op \in {"close", "drop"} =>
    /\ last.res = "ok"
    /\ Cardinality(Calls(log, "disconnect")) = 1
    /\ Calls(log, "raw_flush") = {Len(log)}
    /\ log[Len(log)].by = "disconnect"
    /\ ~probe

\* close() of an interface with a current DP: the DP was stopped and the
\* probe is gone
C5_Witness ==
  /\ last.op = "close"
  /\ last.dp # NoDp
  /\ ~probe
  /\ CallsFor(log, "debug_port_stop", last.dp) # {}

(***************************************************************************)
(* C6                                                                      *)
(***************************************************************************)
\* the flush that ends disconnect
FlushOfDisconnect(l) == CHOOSE i \in 1..Len(l) : l[i].ev = "raw_flush" /\ l[i].by = "disconnect"

\* C6: disconnect with a current DP c stops c first, without connecting to
\* it; then for every other cached DP d it calls debug_port_connect(d) exactly
\* once, followed at once by debug_port_stop(d) iff the connect succeeded;
\* raw_flush is its last call; no failure of a connect or a stop keeps the
\* other DPs from being visited; current_dp is absent afterwards
C6_DisconnectOrder ==
  (last.op \in DisconnectOps /\ last.dp # NoDp) =>
    LET c == last.dp
        others == DOMAIN dps \ {c}
        made == {i \in 1..Len(log) : log[i].by = "disconnect"}
        f == FlushOfDisconnect(log)
    IN  /\ CallsBy(log, "raw_flush", "disconnect") = {f}
        /\ made = 1..f
        /\ log[1].ev = "disconnect"
        /\ log[2].ev = "debug_port_stop" /\ log[2].dp = c
        /\ CallsFor(log, "debug_port_connect", c) \cap made = {}
        /\ CallsFor(log, "debug_port_stop", c) \cap made = {2}
        /\ \A i \in 3..(f - 1) :
             /\ log[i].ev \in {"debug_port_connect", "debug_port_stop"}
             /\ log[i].dp \in others
        /\ \A d \in others :
             \E i \in 3..(f - 1) :
               /\ CallsFor(log, "debug_port_connect", d) \cap made = {i}
               /\ CallsFor(log, "debug_port_stop", d) \cap made
                    = IF log[i].ok THEN {i + 1} ELSE {}
        /\ log[f].cur = NoDp
        /\ last.op \in {"close", "drop"} => (f = Len(log) /\ current_dp = NoDp)

\* a drop with two other cached DPs: the connect to the first one failed and
\* the second one was connected to and stopped all the same
C6_Witness ==
  /\ last.op = "drop"
  /\ last.dp # NoDp
  /\ \E i, j \in Calls(log, "debug_port_connect") :
       /\ i < j
       /\ ~log[i].ok
       /\ log[j].ok
       /\ log[j + 1].ev = "debug_port_stop"
       /\ log[j + 1].dp = log[j].dp

(***************************************************************************)
(* C7                                                                      *)
(***************************************************************************)
\* the hook calls disconnect made for dp
AttemptsFor(dp) ==
  {i \in 1..Len(log) : /\ log[i].by = "disconnect"
                       /\ log[i].dp = dp
                       /\ log[i].ev \in {"debug_port_stop", "debug_port_connect"}}

C8_Select ==
  (last'.op \in SelectOps /\ current_dp # last'.dp) =>
    LET l == log'
        dp == last'.dp
        setups == Calls(l, "debug_port_setup")
        connects == Calls(l, "debug_port_connect")
    IN  /\ Len(l) >= 1
        /\ l[1].ev = "raw_flush"
        /\ IF ~l[1].ok
           THEN Len(l) = 1 /\ last'.res = "err" /\ current_dp' = current_dp
           ELSE /\ \A i \in setups \cup connects : l[i].dp = dp
                /\ IF current_dp = NoDp
                   THEN connects = {} /\ setups = {2}
                   ELSE connects = {2} /\ setups = (IF l[2].ok THEN {} ELSE {3})
                /\ LET h == IF setups = {} THEN 2 ELSE CHOOSE i \in setups : TRUE
                   IN  IF l[h].ok
                       THEN current_dp' = dp
                       ELSE Len(l) = h /\ last'.res = "err" /\ current_dp' = current_dp

\* C8: select_dp(dp) with dp other than current_dp flushes the probe first;
\* then, with current_dp absent, it calls exactly debug_port_setup(dp), and
\* otherwise debug_port_connect(dp) and debug_port_setup(dp) exactly once iff
\* that connect failed; the failure of setup is returned, and otherwise
\* current_dp becomes dp
C8_SwitchFlushConnectSetup == [][C8_Select]_vars

\* the switch from one DP to another where debug_port_connect failed and the
\* fallback debug_port_setup succeeded
C8_Witness ==
  /\ last.op = "select_debug_port"
  /\ Len(log) >= 3
  /\ log[1].cur # NoDp
  /\ log[2].ev = "debug_port_connect" /\ ~log[2].ok
  /\ log[3].ev = "debug_port_setup" /\ log[3].ok
  /\ current_dp = last.dp

(***************************************************************************)
(* C9                                                                      *)
(***************************************************************************)
\* C9: whenever select_dp(dp) returns Ok (in select_debug_port or
\* access_ports) the recorded debug_port_version of dp is one of DPv0..DPv3,
\* and access_ports never reaches its Unsupported branch
C9_SelectedVersionIsSupported ==
  /\ (last.op \in SelectOps /\ last.res = "ok") =>
       dps[last.dp].debug_port_version \in SupportedVersions
  /\ last.op = "access_ports" => last.res # "panic"

(***************************************************************************)
(* C10                                                                     *)
(***************************************************************************)
\* C10: in reinitialize(), current_dp is absent from the end of disconnect
\* until the setup hook of the reselection has succeeded, and the reselection
\* calls debug_port_setup, never debug_port_connect; after a successful
\* reinitialize current_dp is the DP that was current before; with no DP
\* current before, no hook is called and current_dp stays absent
C10_ReinitializeReselects ==
  last.op = "reinitialize" =>
    LET c == last.dp
        f == FlushOfDisconnect(log)
    IN  /\ last.res # "panic"
        /\ IF c = NoDp
           THEN Len(log) = 2 /\ f = 2 /\ current_dp = NoDp /\ last.res = "ok"
           ELSE /\ log[f].cur = NoDp
                /\ Len(log) > f
                /\ log[f + 1].ev = "raw_flush" /\ log[f + 1].cur = NoDp
                /\ CallsBy(log, "debug_port_connect", "select_dp") = {}
                /\ IF log[f + 1].ok
                   THEN /\ Len(log) > f + 1
                        /\ log[f + 2].ev = "debug_port_setup"
                        /\ log[f + 2].dp = c
                        /\ log[f + 2].cur = NoDp
                        /\ Calls(log, "debug_port_setup") = {f + 2}
                        /\ \A i \in (f + 3)..Len(log) : log[i].cur = c
                        /\ current_dp = (IF log[f + 2].ok THEN c ELSE NoDp)
                        /\ ~log[f + 2].ok => Len(log) = f + 2
                   ELSE Len(log) = f + 1 /\ current_dp = NoDp
                /\ last.res = "ok" => current_dp = c

\* a successful reinitialize of an interface with a current DP: the DP was
\* set up again while no DP was current, and is current again
C10_Witness ==
  /\ last.op = "reinitialize"
  /\ last.dp # NoDp
  /\ last.res = "ok"
  /\ current_dp = last.dp
  /\ \E i \in CallsBy(log, "debug_port_setup", "select_dp") :
       log[i].dp = last.dp /\ log[i].cur = NoDp /\ log[i].ok

(***************************************************************************)
(* C11                                                                     *)
(***************************************************************************)
\* bits 4..36 of a u64, as a 32-bit value
Bits4To36(x) == [i \in 1..8 |-> x[i + 1]]

\* bits 36..48 of a u64, as a 32-bit value
Bits36To48(x) == [i \in 1..8 |-> IF i <= 3 THEN x[i + 9] ELSE 0]

\* addr = base + ap_register_address of the AP access last made
CombinedAddress ==
  Add64(IF last.ap.base = <<>> THEN U64(0) ELSE last.ap.base[1], last.address)

\* C11: after the bank selection of an AP access on a (V2 AP, DPv3 cache)
\* pair with addr = base + ap_register_address, the cache and the SELECT and
\* SELECT1 writes carry SELECT.addr = bits 4..36 of addr and SELECT1.addr =
\* bits 36..48 of addr
C11_AddressSplit ==
  (/\ last.op \in ApAccessOps
   /\ last.ap.variant = "V2"
   /\ last.dp \in DOMAIN dps
   /\ dps[last.dp].current_select.tag = "DPv3"
   /\ (last.res = "ok" \/ RegWrites(log, SELECT_ADDRESS) # {})) =>
    LET cache == dps[last.dp].current_select
    IN  /\ cache.select.addr = Bits4To36(CombinedAddress)
        /\ cache.select1.addr = Bits36To48(CombinedAddress)
        /\ \A i \in RegWrites(log, SELECT_ADDRESS) :
             log[i].val.v.addr = Bits4To36(CombinedAddress)
        /\ \A i \in RegWrites(log, SELECT1_ADDRESS) :
             log[i].val.v.addr = Bits36To48(CombinedAddress)

(***************************************************************************)
(* C12                                                                     *)
(***************************************************************************)
\* the probe call each raw DP or AP operation ends with
TransactionOf(op) ==
  CASE op \in {"read_raw_dp_register", "read_raw_ap_register"} -> "raw_read_register"
    [] op = "read_raw_ap_register_repeated" -> "raw_read_block"
    [] op \in {"write_raw_dp_register", "write_raw_ap_register"} -> "raw_write_register"
    [] op = "write_raw_ap_register_repeated" -> "raw_write_block"
    [] OTHER -> "none"

C12_Access ==
  (/\ last'.op \in ApAccessOps
   /\ last'.ap.variant = "V1"
   /\ last'.dp \in DOMAIN dps'
   /\ dps'[last'.dp].current_select.tag = "DPv1"
   /\ (last'.res = "ok" \/ SelectWritesOf(log', last') # {})) =>
    LET a == last'.address
        select == dps'[last'.dp].current_select.select
        t == log'[Len(log')]
    IN  /\ select.ap_sel = last'.ap.port
        /\ select.ap_bank_sel = a[2]
        /\ select.dp_bank_sel = CacheBefore(last'.dp).select.dp_bank_sel
        /\ last'.res = "ok" =>
             /\ t.ev = TransactionOf(last'.op)
             /\ t.val.kind = "AP"
             /\ t.val.reg.address = a[1] + 16 * a[2]

\* C12: after the bank selection of an AP access on a (V1 AP with port p,
\* DPv1 cache) pair at address a the cache has ap_sel = p and ap_bank_sel =
\* (a >> 4) & 0xF with dp_bank_sel unchanged, and the raw AP transaction of
\* every raw AP operation, single or block, uses the wire address a & 0xFF
C12_V1BankAndWireAddress == [][C12_Access]_vars

\* a block write at 0x1D4 of port 3, on a DP whose dp_bank_sel was 1: bank
\* 0xD is selected and the wire address is 0xD4
C12_Witness ==
  /\ last.op = "write_raw_ap_register_repeated"
  /\ last.address = U64(468)
  /\ last.res = "ok"
  /\ dps[last.dp].current_select.select.dp_bank_sel = 1
  /\ dps[last.dp].current_select.select.ap_bank_sel = 13
  /\ log[Len(log)].ev = "raw_write_block"
  /\ log[Len(log)].val.reg.address = 212

(***************************************************************************)
(* C13                                                                     *)
(***************************************************************************)
\* the reads of the DP register reg in the log l
RegReads(l, reg) ==
  {i \in Calls(l, "raw_read_register") : l[i].val.kind = "DP" /\ l[i].val.reg = reg}

C13_FirstTouch ==
  (last'.op \in SelectOps /\ last'.dp \notin DOMAIN dps /\ last'.dp \in DOMAIN dps') =>
    LET l == log'
        starts == Calls(l, "debug_port_start")
        s == CHOOSE i \in starts : TRUE
        ctrlReads == RegReads(l, CTRL_ADDRESS)
        ctrlWrites == RegWrites(l, CTRL_ADDRESS)
        idrReads == RegReads(l, DPIDR_ADDRESS)
        version == dps'[last'.dp].debug_port_version
    IN  /\ Cardinality(starts) = 1
        /\ ctrlReads = (IF l[s].ok THEN {s + 1} ELSE {})
        /\ ctrlWrites =
             (IF l[s].ok /\ l[s + 1].ok
                 /\ l[s + 1].val.v.orun_detect # use_overrun_detect
              THEN {s + 2}
              ELSE {})
        /\ \A i \in ctrlWrites : l[i].val.v.orun_detect = use_overrun_detect
        /\ Cardinality(idrReads) <= 1
        /\ \A i \in idrReads :
             /\ \A j \in ctrlReads \cup ctrlWrites : j < i /\ l[j].ok
             /\ ctrlReads # {}
        /\ (idrReads = {}) => \E j \in 1..Len(l) : ~l[j].ok
        /\ IF \E i \in idrReads : l[i].ok
           THEN version = VersionOf(l[CHOOSE i \in idrReads : TRUE].val.v.version)
           ELSE version = DpState_new.debug_port_version

\* C13: in the first touch of a DP, after debug_port_start the CTRL register
\* is read once; CTRL is written exactly once iff the orun_detect bit read
\* differs from use_overrun_detect, and not at all when they match; DPIDR is
\* read only after that, and the version is recorded only after the DPIDR read
\* has succeeded
C13_FirstTouchOrder == [][C13_FirstTouch]_vars

\* a first touch that found orun_detect different from use_overrun_detect:
\* CTRL was written once, then DPIDR was read and the version recorded
C13_Witness ==
  /\ last.op = "select_debug_port"
  /\ last.res = "ok"
  /\ Cardinality(RegWrites(log, CTRL_ADDRESS)) = 1
  /\ \E i \in RegReads(log, DPIDR_ADDRESS) :
       /\ log[i].ok
       /\ \A j \in RegWrites(log, CTRL_ADDRESS) : j < i
  /\ dps[last.dp].debug_port_version \in SupportedVersions

(***************************************************************************)
(* C14                                                                     *)
(***************************************************************************)
\* the register transactions of the raw operation itself
Transactions(l) == {i \in 1..Len(l) : l[i].by = "caller"}

\* C14: in every raw DP or AP read or write, single or block, every SELECT or
\* SELECT1 write of the bank selection is issued before the register
\* transaction it enables, and when DP selection or bank selection fails the
\* register transaction is not issued at all
C14_SelectionBeforeTransaction ==
  last.op \in DpAccessOps \cup ApAccessOps =>
    LET tx == Transactions(log)
    IN  /\ Cardinality(tx) <= 1
        /\ \A i \in tx :
             /\ i = Len(log)
             /\ log[i].ev = TransactionOf(last.op)
             /\ \A j \in 1..(i - 1) : log[j].ok
             /\ \A j \in RegWrites(log, SELECT_ADDRESS) \cup RegWrites(log, SELECT1_ADDRESS) :
                  j < i
        /\ (\E j \in 1..Len(log) : ~log[j].ok /\ j \notin tx) =>
             (tx = {} /\ last.res = "err")
        /\ last.res = "ok" => tx # {}
        /\ last.res = "panic" => tx = {}

\* a block read whose bank selection failed at the SELECT write: no block
\* read was issued
C14_Witness ==
  /\ last.op = "read_raw_ap_register_repeated"
  /\ last.res = "err"
  /\ RegWrites(log, SELECT_ADDRESS) # {}
  /\ ~log[Len(log)].ok
  /\ log[Len(log)].ev = "raw_write_register"
  /\ Calls(log, "raw_read_block") = {}

(***************************************************************************)
(* C15                                                                     *)
(***************************************************************************)
\* the dp_bank_sel the access of dp finds cached: that of the state before
\* the call, or the 0 of the DpState the call creates
BankBefore(dp) == dp_bank_sel(CacheBefore(dp))

\* the cached dp_bank_sel of dp is after the call what it was before
BankKept(dp) ==
  dp \in DOMAIN dps' => dp_bank_sel(dps'[dp].current_select) = BankBefore(dp)

C15_Access ==
  last'.op \in DpAccessOps =>
    LET dp == last'.dp
        reg == last'.reg
        writes == RegWrites(log', SELECT_ADDRESS)
    IN  /\ reg.address \notin {0, 4} => (writes = {} /\ BankKept(dp))
        /\ (reg.address \in {0, 4} /\ UnwrapOr0(reg.bank) = BankBefore(dp)) =>
             (writes = {} /\ BankKept(dp))
        /\ (reg.address \in {0, 4} /\ reg.bank = <<>> /\ BankBefore(dp) # 0
              /\ last'.res = "ok") =>
             /\ Cardinality(writes) = 1
             /\ \A i \in writes : log'[i].val.v.dp_bank_sel = 0
             /\ dp_bank_sel(dps'[dp].current_select) = 0

\* C15: a DP register access at an address other than 0x0 and 0x4 issues no
\* SELECT write and leaves the cached dp_bank_sel unchanged, whatever bank
\* the request names; at 0x0 and 0x4 an absent bank is bank 0, and no SELECT
\* write is issued when the bank equals the cached dp_bank_sel
C15_BankedAddressesOnly == [][C15_Access]_vars

\* a DPIDR read with absent bank that initialised the DP (the CTRL and DPIDR
\* reads of the first touch precede it) and wrote no SELECT
C15_Witness ==
  /\ last.op = "read_raw_dp_register"
  /\ last.reg = DPIDR_ADDRESS
  /\ last.res = "ok"
  /\ Calls(log, "debug_port_start") # {}
  /\ Cardinality(Calls(log, "raw_read_register")) = 3
  /\ RegWrites(log, SELECT_ADDRESS) = {}

(***************************************************************************)
(* C16                                                                     *)
(***************************************************************************)
\* the calls read_chip_info_from_rom_table makes for one access port
PerApCalls == {"memory_interface", "base_address", "try_parse"}

\* the access ports the walk has reached with the event i of the log l
ApsReached(l, i) == Cardinality({j \in Calls(l, "memory_interface") : j <= i})

\* C16: read_chip_info_from_rom_table is silent on per-AP errors: after a
\* failure of memory_interface, of base_address or of parsing the component
\* of an access port the walk continues with the next access port, and the
\* result is an error only if access_ports itself fails
C16_SilentOnPerApErrors ==
  last.op = "read_chip_info_from_rom_table" =>
    /\ last.res = "err" => Calls(log, "memory_interface") = {}
    /\ \A i \in 1..Len(log) :
         (log[i].ev \in PerApCalls /\ ~log[i].ok /\ ApsReached(log, i) < MaxAps) =>
           (i < Len(log) /\ log[i + 1].ev = "memory_interface")

(***************************************************************************)
(* C17                                                                     *)
(***************************************************************************)
C17_Step ==
  /\ \A d \in DOMAIN dps : d \in DOMAIN dps'
  /\ last'.op \in DpAccessOps \cup ApAccessOps \cup SelectOps =>
       \A d \in DOMAIN dps \ {last'.dp} : dps'[d] = dps[d]

\* C17: a register access, a bank selection or the selection of a DP leaves
\* the select cache and the debug_port_version of every other DP unchanged,
\* and no operation (select, disconnect, reinitialize) removes the cached
\* state of a DP from the map
C17_IndependentDpState == [][C17_Step]_vars

\* an AP access of one DP wrote SELECT and changed its cache while another DP
\* has cached state
C17_Witness ==
  /\ last.op \in ApAccessOps
  /\ last.res = "ok"
  /\ RegWrites(log, SELECT_ADDRESS) # {}
  /\ DOMAIN dps \ {last.dp} # {}
  /\ last.dp \in DOMAIN dps
  /\ dps[last.dp].current_select # SelectCache_DPv1_0
  /\ dps[last.dp].current_select # SelectCache_DPv3_0

(***************************************************************************)
(* C18                                                                     *)
(***************************************************************************)
\* the DPIDR reads of the log l that returned a DPv3 version field
Dpv3Seen(l) ==
  {i \in RegReads(l, DPIDR_ADDRESS) : l[i].ok /\ VersionOf(l[i].val.v.version) = "DPv3"}

C18_Step ==
  /\ \A d \in DOMAIN dps' :
       dps'[d].current_select.tag = "DPv3" <=> dps'[d].debug_port_version = "DPv3"
  /\ \A d \in DOMAIN dps :
       dps[d].current_select.tag = "DPv3" =>
         (d \in DOMAIN dps' /\ dps'[d].current_select.tag = "DPv3")
  /\ \A d \in DOMAIN dps' \ DOMAIN dps :
       /\ dps'[d].current_select.tag \in {"DPv1", "DPv3"}
       /\ dps'[d].current_select.tag = "DPv3" <=> Dpv3Seen(log') # {}
       /\ dps'[d].current_select.tag = "DPv1" => dps'[d].current_select = SelectCache_DPv1_0

\* C18: for every DP with cached state the select cache is DPv3-shaped if and
\* only if the recorded debug_port_version is DPv3; the cache starts
\* DPv1-shaped, is retagged when the DPIDR read shows DPv3, and once
\* DPv3-shaped never becomes DPv1-shaped again
C18_ShapeFollowsVersion == [][C18_Step]_vars

\* a DPv3 DP after a reinitialize in which a hook or the flush failed: its
\* cache is still DPv3-shaped
C18_Witness ==
  /\ last.op = "reinitialize"
  /\ last.dp \in DOMAIN dps
  /\ last.res = "err"
  /\ dps[last.dp].debug_port_version = "DPv3"
  /\ dps[last.dp].current_select.tag = "DPv3"

(***************************************************************************)
(* C19                                                                     *)
(***************************************************************************)
C19_Select ==
  (last'.op \in SelectOps /\ last'.dp \in DOMAIN dps) =>
    LET dp == last'.dp
        starts == Calls(log', "debug_port_start")
    IN  /\ dps' = dps
        /\ Calls(log', "raw_read_register") = {}
        /\ Calls(log', "raw_write_register") = {}
        /\ IF current_dp = dp
           THEN /\ log' = <<>>
                /\ current_dp' = dp
                /\ last'.op = "select_debug_port" => last'.res = "ok"
           ELSE /\ Cardinality(starts) <= 1
                /\ current_dp' = dp <=> Cardinality(starts) = 1
                /\ \A i \in starts :
                     /\ i = Len(log')
                     /\ log'[i].dp = dp
                     /\ log'[i].cur = dp
                     /\ log'[i].by = "select_dp"

\* C19: select_dp(dp) of a DP that has cached state calls debug_port_start(dp)
\* exactly once, as its last step, when it has switched from another current
\* DP to dp, and calls no hook, no flush and no probe transaction when dp is
\* the current DP; in both cases CTRL and DPIDR are not read again and the
\* version and the select cache stay as they are
C19_CachedDpIsRestartedNotInitialised == [][C19_Select]_vars

\* a switch by debug_port_connect to a DP that had cached state: it was
\* started again and none of its registers was read
C19_Witness ==
  /\ last.op = "select_debug_port"
  /\ last.res = "ok"
  /\ \E i \in Calls(log, "debug_port_connect") : log[i].ok /\ log[i].known
  /\ Cardinality(Calls(log, "debug_port_start")) = 1
  /\ Calls(log, "raw_read_register") = {}
  /\ current_dp = last.dp

(***************************************************************************)
(* C20                                                                     *)
(***************************************************************************)
\* the probe and hook calls made by the DAP operation the start hook
\* re-entered
Reentered(l) == {i \in 1..Len(l) : l[i].ctx = "hook"}

\* C20: whenever debug_port_start(dp) is invoked (first touch, start after a
\* switch, reinitialize), current_dp is dp and the map holds a DpState for
\* dp, so that a DAP operation on dp re-entered from the hook makes register
\* transactions only: no flush, no debug_port_setup or debug_port_connect and
\* no nested debug_port_start
C20_HookSeesConsistentState ==
  /\ \A i \in Calls(log, "debug_port_start") :
       log[i].cur = log[i].dp /\ log[i].known
  /\ \A i \in Reentered(log) :
       /\ log[i].ev \in {"raw_read_register", "raw_write_register"}
       /\ log[i].cur = log[i].dp
       /\ \E j \in Calls(log, "debug_port_start") : j < i /\ log[j].dp = log[i].dp

\* the start hook of a reinitialize read DLCR on the DP it started: the bank
\* was selected and the register read, with nothing else
C20_Witness ==
  /\ last.op = "reinitialize"
  /\ last.res = "ok"
  /\ \E i \in Reentered(log) :
       log[i].ev = "raw_read_register" /\ log[i].val.reg = DLCR_ADDRESS /\ log[i].ok
  /\ \E i \in Reentered(log) :
       log[i].ev = "raw_write_register" /\ log[i].val.reg = SELECT_ADDRESS

(***************************************************************************)
(* C21                                                                     *)
(***************************************************************************)
\* the last call of the log l is a call of ev by select_dp that failed
FailedAt(l, ev) ==
  /\ l # <<>>
  /\ l[Len(l)].ev = ev
  /\ l[Len(l)].by = "select_dp"
  /\ ~l[Len(l)].ok

\* the connect or setup hook of select_dp returned Ok for dp in the log l
SwitchedTo(l, dp) ==
  \E i \in CallsBy(l, "debug_port_connect", "select_dp")
             \cup CallsBy(l, "debug_port_setup", "select_dp") :
    l[i].ok /\ l[i].dp = dp

C21_Select ==
  (last'.op \in SelectOps /\ SwitchedTo(log', last'.dp)
     /\ FailedAt(log', "debug_port_start")) =>
    /\ last'.res = "err"
    /\ current_dp' = last'.dp
    /\ \A d \in DOMAIN dps : d \in DOMAIN dps' /\ dps'[d] = dps[d]

\* C21: when debug_port_connect or debug_port_setup for dp succeeds and the
\* debug_port_start(dp) that follows fails, select_dp returns the error,
\* current_dp stays dp, and the cached state of every DP that had one is
\* kept as it was
C21_StartFailureKeepsCurrent == [][C21_Select]_vars

\* the start hook failed after a successful switch by debug_port_connect,
\* with another DP holding cached state
C21_Witness ==
  /\ last.op = "select_debug_port"
  /\ last.res = "err"
  /\ \E i \in Calls(log, "debug_port_connect") : log[i].ok
  /\ FailedAt(log, "debug_port_start")
  /\ current_dp = last.dp
  /\ DOMAIN dps \ {last.dp} # {}

(***************************************************************************)
(* C22                                                                     *)
(***************************************************************************)
C22_Select ==
  (last'.op \in SelectOps /\ current_dp # last'.dp
     /\ (FailedAt(log', "raw_flush") \/ FailedAt(log', "debug_port_setup"))) =>
    /\ last'.res = "err"
    /\ current_dp' = current_dp
    /\ dps' = dps
    /\ Calls(log', "debug_port_start") = {}

\* C22: when select_dp is to switch to a DP other than current_dp and its
\* raw_flush fails, or debug_port_setup fails (called directly, or as the
\* fallback of a failed debug_port_connect), it returns the error with
\* current_dp and the map of DP states as they were before the call, and
\* debug_port_start is not called
C22_FailedSwitchChangesNothing == [][C22_Select]_vars

\* the fallback case: the flush succeeded, debug_port_connect failed and then
\* debug_port_setup failed; the DP that was current still is
C22_Witness ==
  /\ last.op = "select_debug_port"
  /\ last.res = "err"
  /\ Len(log) = 3
  /\ log[1].ev = "raw_flush" /\ log[1].ok
  /\ log[2].ev = "debug_port_connect" /\ ~log[2].ok
  /\ FailedAt(log, "debug_port_setup")
  /\ current_dp \in DPs \ {last.dp}

====
